---- MODULE Spec2Model ----
(***************************************************************************)
(* Payment service of the Personal Cosmetic Assistant: TransactionService  *)
(* (createTransaction, findById) and AccountService (findAll) over the     *)
(* "Account" / "Transaction" tables of the PostgreSQL schema.              *)
(*                                                                         *)
(* Strings are sequences of character codes, so that isBlank, equals,      *)
(* Integer.valueOf and String.valueOf are computed character by character. *)
(* A BigDecimal is its (unscaled value, scale) pair.                       *)
(***************************************************************************)
EXTENDS Integers, Sequences, FiniteSets, TLC

VARIABLES accounts, transactions, txSeq, call, created, sessions,
          cart, cartCall, checkout, procCall, routines, rpc, auth

\* the payment service and its database
paymentVars == <<accounts, transactions, txSeq, call, created, sessions>>

\* the web client
cartVars == <<cart, cartCall>>
\* the tRPC server and the skincare_routine table
serverVars == <<procCall, routines, rpc>>

webVars == <<cartVars, checkout, serverVars, auth>>

vars == <<paymentVars, webVars>>

(***************************************************************************)
(* Bounds of the model.                                                    *)
(***************************************************************************)
\* the "Transaction" id sequence is not drawn beyond this value
MaxTxId == 2

\* the number of requests that can be in flight together
MaxThreads == 2

\* the cart holds no quantity above this one, or below its negative
MaxQuantity == 3

\* the number of payment requests the checkout page sends
MaxRequests == 2

\* the number of skincareRoutine.create calls that can be in flight together
MaxCallers == 2

(***************************************************************************)
(* Java values.                                                            *)
(***************************************************************************)
\* the null String reference (no character has code -1)
Null == <<-1>>
\* the null BigDecimal reference
NullAmount == [null |-> TRUE]
\* the null request body
NullRequest == [null |-> TRUE]

BigDecimal(u, s) == [unscaled |-> u, scale |-> s]

\* java.lang.Integer.MAX_VALUE and MIN_VALUE
IntMax == 2147483647
IntMin == (-2147483647) - 1

Abs(n) == IF n < 0 THEN -n ELSE n

\* Character.isWhitespace on the ASCII range
IsWhitespace(c) == c \in {9, 10, 11, 12, 13, 28, 29, 30, 31, 32}

\* String.isBlank(): empty, or white space only
isBlank(s) == \A i \in 1..Len(s) : IsWhitespace(s[i])

\* Character.digit(c, 10) on the ASCII range; -1 when c is no digit
CharDigit(c) == IF c \in 48..57 THEN c - 48 ELSE -1

\* The accumulation loop of Integer.parseInt: the result is accumulated
\* negatively; acc = 1 stands for NumberFormatException.
RECURSIVE ParseLoop(_, _, _, _)
ParseLoop(s, i, acc, limit) ==
    IF i > Len(s) THEN acc
    ELSE LET digit == CharDigit(s[i])
             multmin == -(IntMax \div 10)
         IN  IF digit < 0 \/ acc < multmin THEN 1
             ELSE IF acc * 10 < limit + digit THEN 1
             ELSE ParseLoop(s, i + 1, acc * 10 - digit, limit)

\* Integer.valueOf(String): [ok |-> FALSE] stands for NumberFormatException
IntegerValueOf(s) ==
    IF s = Null \/ Len(s) = 0 THEN [ok |-> FALSE, value |-> 0]
    ELSE LET first == s[1]
             negative == first = 45
             signed == first < 48
             limit == IF negative THEN IntMin ELSE -IntMax
         IN  IF signed /\ first # 45 /\ first # 43 THEN [ok |-> FALSE, value |-> 0]
             ELSE IF signed /\ Len(s) = 1 THEN [ok |-> FALSE, value |-> 0]
             ELSE LET acc == ParseLoop(s, IF signed THEN 2 ELSE 1, 0, limit)
                  IN  IF acc = 1 THEN [ok |-> FALSE, value |-> 0]
                      ELSE [ok |-> TRUE, value |-> IF negative THEN acc ELSE -acc]

\* decimal digits of a natural number, most significant first
RECURSIVE NatDigits(_)
NatDigits(n) ==
    IF n < 10 THEN <<48 + n>> ELSE Append(NatDigits(n \div 10), 48 + (n % 10))

\* String.valueOf(Object) of an Integer (the ids of the model are above
\* Integer.MIN_VALUE)
StringValueOf(n) == IF n < 0 THEN <<45>> \o NatDigits(-n) ELSE NatDigits(n)

\* BigDecimal.signum()
Signum(a) == IF a.unscaled > 0 THEN 1 ELSE IF a.unscaled < 0 THEN -1 ELSE 0

\* amount.compareTo(BigDecimal.ZERO)
CompareToZero(a) == Signum(a)

RECURSIVE Pow10(_)
Pow10(k) == IF k = 0 THEN 1 ELSE 10 * Pow10(k - 1)

\* number of decimal digits of a natural number (0 has none)
RECURSIVE NumDigits(_)
NumDigits(n) == IF n = 0 THEN 0 ELSE 1 + NumDigits(n \div 10)

\* the value of a BigDecimal without trailing zeros: numerically equal
\* BigDecimals have the same canonical form
RECURSIVE Canonical(_)
Canonical(a) ==
    IF a.unscaled = 0 THEN BigDecimal(0, 0)
    ELSE IF a.unscaled % 10 = 0 THEN Canonical(BigDecimal(a.unscaled \div 10, a.scale - 1))
    ELSE a

\* a.compareTo(b) = 0
NumEq(a, b) == Canonical(a) = Canonical(b)

(***************************************************************************)
(* The database: schema of the "Account" and "Transaction" tables.         *)
(***************************************************************************)
\* amount NUMERIC(12,2): precision and scale of the column
NumericPrecision == 12
NumericScale == 2

\* the seeded "Account" rows (the balance of ids 1, 2 and 3, in that order)
\* and the seeded "Transaction" row the tests read
SeedAccounts ==
    <<BigDecimal(100000, 2), BigDecimal(50000, 2), BigDecimal(0, 2)>>

SeedTransactions ==
    {[id |-> 1, from_account_id |-> 1, to_account_id |-> 2,
      amount |-> BigDecimal(12000, 2), created_at |-> 0]}

\* PostgreSQL's rounding of a numeric to the column's scale (half away from
\* zero); a value of smaller scale is padded with zeros
RoundToScale(a) ==
    IF a.scale <= NumericScale
    THEN BigDecimal(a.unscaled * Pow10(NumericScale - a.scale), NumericScale)
    ELSE LET p == Pow10(a.scale - NumericScale)
             q == Abs(a.unscaled) \div p
             r == Abs(a.unscaled) % p
             m == IF 2 * r >= p THEN q + 1 ELSE q
         IN  BigDecimal(Signum(a) * m, NumericScale)

\* digits before the decimal point of a BigDecimal
IntegerDigits(a) ==
    IF a.unscaled = 0 THEN 0 ELSE NumDigits(Abs(a.unscaled)) - a.scale

\* "numeric field overflow": the rounded value needs more than
\* precision - scale digits before the decimal point
NumericOverflow(a) ==
    LET carried == IF a.scale > NumericScale
                   THEN BigDecimal(Abs(a.unscaled) + 5 * Pow10(a.scale - NumericScale - 1),
                                   a.scale)
                   ELSE a
    IN  IntegerDigits(carried) > NumericPrecision - NumericScale

\* CONSTRAINT ck_amount_positive CHECK (amount > 0)
ck_amount_positive(row) == row.amount.unscaled > 0

\* the schema without ck_accounts_distinct
ck_accounts_distinct_Dropped(row) == TRUE

\* CONSTRAINT ck_accounts_distinct CHECK (from_account_id <> to_account_id)
ck_accounts_distinct(row) == row.from_account_id # row.to_account_id

\* CONSTRAINT fk_tx_from_account / fk_tx_to_account REFERENCES "Account"(id)
\* the schema without the foreign key of from_account_id
fk_tx_from_account_Dropped(accts, row) == TRUE

fk_tx_from_account(accts, row) == row.from_account_id \in DOMAIN accts
fk_tx_to_account(accts, row) == row.to_account_id \in DOMAIN accts

\* an insert that writes under the id of the first row instead of drawing a
\* new one, replacing the row stored under that id
InsertTransaction_FixedId(accts, txs, seq, clock, from, to, amount) ==
    LET row == [id |-> 1, from_account_id |-> from, to_account_id |-> to,
                amount |-> RoundToScale(amount), created_at |-> clock]
    IN  [error |-> "", transactions |-> {t \in txs : t.id # 1} \cup {row},
         txSeq |-> seq + 1, id |-> 1]

\* INSERT INTO "Transaction" (from_account_id, to_account_id, amount): the id
\* is drawn from the sequence (SERIAL) and created_at is CURRENT_TIMESTAMP.
\* error = "" when the row is inserted, else the rule that rejected it. A
\* value drawn from the sequence is not given back when the insert fails.
\* an id column that is neither SERIAL nor a primary key: the id is one more
\* than the number of committed and uncommitted rows read before the insert
InsertTransaction_NoSequenceNoKey(accts, txs, seq, clock, from, to, amount) ==
    LET row == [id |-> seq, from_account_id |-> from, to_account_id |-> to,
                amount |-> RoundToScale(amount), created_at |-> clock]
    IN  [error |-> "", transactions |-> txs \cup {row}, txSeq |-> seq, id |-> seq]

InsertTransaction(accts, txs, seq, clock, from, to, amount) ==
    IF amount = NullAmount
    THEN [error |-> "not_null_amount", transactions |-> txs, txSeq |-> seq + 1, id |-> seq]
    ELSE IF NumericOverflow(amount)
    THEN [error |-> "numeric_field_overflow", transactions |-> txs, txSeq |-> seq + 1, id |-> seq]
    ELSE LET row == [id |-> seq, from_account_id |-> from, to_account_id |-> to,
                     amount |-> RoundToScale(amount), created_at |-> clock]
             rejected ==
                 IF ~ck_accounts_distinct(row) THEN "ck_accounts_distinct"
                 ELSE IF ~ck_amount_positive(row) THEN "ck_amount_positive"
                 ELSE IF \E t \in txs : t.id = row.id THEN "Transaction_pkey"
                 ELSE IF ~fk_tx_from_account(accts, row) THEN "fk_tx_from_account"
                 ELSE IF ~fk_tx_to_account(accts, row) THEN "fk_tx_to_account"
                 ELSE ""
         IN  [error |-> rejected,
              transactions |-> IF rejected = "" THEN txs \cup {row} ELSE txs,
              txSeq |-> seq + 1, id |-> seq]

(***************************************************************************)
(* TransactionService.                                                     *)
(***************************************************************************)
NoDto == [null |-> TRUE]

Ok(dto) == [kind |-> "ok", message |-> "", dto |-> dto]
Throw(exception, message) == [kind |-> exception, message |-> message, dto |-> NoDto]

\* toDto of a TransactionEntity: ids rendered with String.valueOf, the amount
\* as held by the entity, createdAt null or the entity's LocalDateTime at the
\* system zone. An Optional value is a set of at most one element.
toDto(entity) ==
    [id |-> StringValueOf(entity.id),
     fromAccountId |-> StringValueOf(entity.fromAccountId),
     toAccountId |-> StringValueOf(entity.toAccountId),
     amount |-> entity.amount,
     createdAt |-> IF entity.createdAt = {} THEN {}
                   ELSE {[dateTime |-> t, zone |-> "systemDefault"] : t \in entity.createdAt}]

\* the entity Hibernate loads from a row of "Transaction"
EntityOfRow(row) ==
    [id |-> row.id, fromAccountId |-> row.from_account_id,
     toAccountId |-> row.to_account_id, amount |-> row.amount,
     createdAt |-> {row.created_at}]

\* transactionRepository.findById(id): EntityManager.find returns the entity
\* the persistence context already manages under that id, and reads the
\* table only when it manages none
RepositoryFindById_AnyRow(managed, txs, id) ==
    IF managed # {} THEN managed
    ELSE IF txs = {} THEN {}
    ELSE {EntityOfRow(CHOOSE t \in txs : \A u \in txs : t.id <= u.id)}

RepositoryFindById(managed, txs, id) ==
    IF \E e \in managed : e.id = id THEN {e \in managed : e.id = id}
    ELSE {EntityOfRow(r) : r \in {t \in txs : t.id = id}}

\* validateRequest without the comparison of the two ids
validateRequest_NoDistinctCheck(request) ==
    IF request = NullRequest THEN "Request body is required"
    ELSE IF request.fromAccountId = Null \/ isBlank(request.fromAccountId)
    THEN "fromAccountId is required"
    ELSE IF request.toAccountId = Null \/ isBlank(request.toAccountId)
    THEN "toAccountId is required"
    ELSE IF request.amount = NullAmount \/ CompareToZero(request.amount) <= 0
    THEN "amount must be greater than 0"
    ELSE ""

\* validateRequest with compareTo(ZERO) < 0 for <= 0
validateRequest_ZeroAllowed(request) ==
    IF request = NullRequest THEN "Request body is required"
    ELSE IF request.fromAccountId = Null \/ isBlank(request.fromAccountId)
    THEN "fromAccountId is required"
    ELSE IF request.toAccountId = Null \/ isBlank(request.toAccountId)
    THEN "toAccountId is required"
    ELSE IF request.fromAccountId = request.toAccountId
    THEN "fromAccountId and toAccountId must be different"
    ELSE IF request.amount = NullAmount \/ CompareToZero(request.amount) < 0
    THEN "amount must be greater than 0"
    ELSE ""

\* validateRequest with the amount checked before the two ids are compared
validateRequest_AmountFirst(request) ==
    IF request = NullRequest THEN "Request body is required"
    ELSE IF request.fromAccountId = Null \/ isBlank(request.fromAccountId)
    THEN "fromAccountId is required"
    ELSE IF request.toAccountId = Null \/ isBlank(request.toAccountId)
    THEN "toAccountId is required"
    ELSE IF request.amount = NullAmount \/ CompareToZero(request.amount) <= 0
    THEN "amount must be greater than 0"
    ELSE IF request.fromAccountId = request.toAccountId
    THEN "fromAccountId and toAccountId must be different"
    ELSE ""

\* validateRequest: the message of the IllegalArgumentException thrown, ""
\* when the request passes
validateRequest(request) ==
    IF request = NullRequest THEN "Request body is required"
    ELSE IF request.fromAccountId = Null \/ isBlank(request.fromAccountId)
    THEN "fromAccountId is required"
    ELSE IF request.toAccountId = Null \/ isBlank(request.toAccountId)
    THEN "toAccountId is required"
    ELSE IF request.fromAccountId = request.toAccountId
    THEN "fromAccountId and toAccountId must be different"
    ELSE IF request.amount = NullAmount \/ CompareToZero(request.amount) <= 0
    THEN "amount must be greater than 0"
    ELSE ""

\* parseAccountIdentifier: the Integer, or the IllegalArgumentException
parseAccountIdentifier(fieldName, value) ==
    LET parsed == IntegerValueOf(value)
    IN  IF parsed.ok THEN [ok |-> TRUE, value |-> parsed.value, message |-> ""]
        ELSE [ok |-> FALSE, value |-> 0,
              message |-> fieldName \o " must be a numeric identifier"]

\* parseIdentifier without the null/blank test and without the catch
parseIdentifier_NoCatch(raw) ==
    LET parsed == IntegerValueOf(raw)
    IN  IF parsed.ok THEN [thrown |-> "", value |-> {parsed.value}]
        ELSE [thrown |-> "NumberFormatException", value |-> {}]

\* parseIdentifier: the Integer as a set of one element, {} for null; thrown
\* is the exception that leaves the method, "" when none does (the
\* NumberFormatException of Integer.valueOf is caught)
parseIdentifier(raw) ==
    IF raw = Null \/ isBlank(raw) THEN [thrown |-> "", value |-> {}]
    ELSE LET parsed == IntegerValueOf(raw)
         IN  IF parsed.ok THEN [thrown |-> "", value |-> {parsed.value}]
             ELSE [thrown |-> "", value |-> {}]

\* accountRepository.findById(id).isPresent()
AccountExists(accts, id) == id \in DOMAIN accts

\* Lines 49-59 of createTransaction, given the INSERT's outcome: save sets
\* the generated id on the entity and does not read created_at back
\* (insertable = false); the entity is then looked up again and rendered.
SaveAndReturn(ins, from, to, amount) ==
    IF ins.error # ""
    THEN [result |-> Throw("DataIntegrityViolationException", ins.error),
          transactions |-> ins.transactions, txSeq |-> ins.txSeq]
    ELSE LET saved == [id |-> ins.id, fromAccountId |-> from, toAccountId |-> to,
                       amount |-> amount, createdAt |-> {}]
             found == RepositoryFindById({saved}, ins.transactions, ins.id)
         IN  [result |-> IF found = {}
                         THEN Throw("IllegalStateException", "Transaction not found after save")
                         ELSE Ok(toDto(CHOOSE e \in found : TRUE)),
              transactions |-> ins.transactions, txSeq |-> ins.txSeq]

\* the two lookups in the other order
LookupAndSave_DestinationFirst(accts, txs, seq, clock, from, to, amount) ==
    IF ~AccountExists(accts, to)
    THEN [result |-> Throw("NoSuchElementException", "Destination account not found"),
          transactions |-> txs, txSeq |-> seq]
    ELSE IF ~AccountExists(accts, from)
    THEN [result |-> Throw("NoSuchElementException", "Source account not found"),
          transactions |-> txs, txSeq |-> seq]
    ELSE SaveAndReturn(InsertTransaction(accts, txs, seq, clock, from, to, amount),
                       from, to, amount)

\* Lines 44-59 of createTransaction, given the two parsed account ids
LookupAndSave(accts, txs, seq, clock, from, to, amount) ==
    IF ~AccountExists(accts, from)
    THEN [result |-> Throw("NoSuchElementException", "Source account not found"),
          transactions |-> txs, txSeq |-> seq]
    ELSE IF ~AccountExists(accts, to)
    THEN [result |-> Throw("NoSuchElementException", "Destination account not found"),
          transactions |-> txs, txSeq |-> seq]
    ELSE SaveAndReturn(InsertTransaction(accts, txs, seq, clock, from, to, amount),
                       from, to, amount)

\* Lines 41-59 of createTransaction, given the outcome of the two calls of
\* parseAccountIdentifier (the second is not made when the first throws)
ParseAndSave(accts, txs, seq, clock, from, to, amount) ==
    IF ~from.ok
    THEN [result |-> Throw("IllegalArgumentException", from.message),
          transactions |-> txs, txSeq |-> seq]
    ELSE IF ~to.ok
    THEN [result |-> Throw("IllegalArgumentException", to.message),
          transactions |-> txs, txSeq |-> seq]
    ELSE LookupAndSave(accts, txs, seq, clock, from.value, to.value, amount)

\* ValidateAndSave: createTransaction given the outcome of validateRequest
\* a createTransaction that looks the source account up before it validates
ValidateAndSave_LookupFirst(accts, txs, seq, clock, request, invalid) ==
    IF /\ request # NullRequest
       /\ request.fromAccountId # Null
       /\ IntegerValueOf(request.fromAccountId).ok
       /\ ~AccountExists(accts, IntegerValueOf(request.fromAccountId).value)
    THEN [result |-> Throw("NoSuchElementException", "Source account not found"),
          transactions |-> txs, txSeq |-> seq]
    ELSE IF invalid # ""
    THEN [result |-> Throw("IllegalArgumentException", invalid),
          transactions |-> txs, txSeq |-> seq]
    ELSE ParseAndSave(accts, txs, seq, clock,
                      parseAccountIdentifier("fromAccountId", request.fromAccountId),
                      parseAccountIdentifier("toAccountId", request.toAccountId),
                      request.amount)

ValidateAndSave(accts, txs, seq, clock, request, invalid) ==
    IF invalid # ""
    THEN [result |-> Throw("IllegalArgumentException", invalid),
          transactions |-> txs, txSeq |-> seq]
    ELSE ParseAndSave(accts, txs, seq, clock,
                      parseAccountIdentifier("fromAccountId", request.fromAccountId),
                      parseAccountIdentifier("toAccountId", request.toAccountId),
                      request.amount)

\* The body of createTransaction, inside its database transaction: the
\* result (a TransactionDTO or the exception thrown), the "Transaction"
\* table as the body leaves it, and the id sequence.
createTransactionBody(accts, txs, seq, clock, request) ==
    ValidateAndSave(accts, txs, seq, clock, request, validateRequest(request))

\* a transaction that is rolled back however the body ends
Transactional_AlwaysRollback(txsBefore, outcome) ==
    [outcome EXCEPT !.transactions = txsBefore]

\* @Transactional: the table changes of a body that ends in an exception are
\* rolled back; the id sequence is not transactional
Transactional(txsBefore, outcome) ==
    IF outcome.result.kind = "ok" THEN outcome
    ELSE [outcome EXCEPT !.transactions = txsBefore]

\* createTransaction without @Transactional whose lookup after save misses
\* the saved row: the exception leaves the inserted row behind
createTransaction_RereadFailsNoRollback(accts, txs, seq, clock, request) ==
    LET out == createTransactionBody(accts, txs, seq, clock, request)
    IN  IF out.result.kind = "ok"
        THEN [out EXCEPT !.result = Throw("IllegalStateException",
                                          "Transaction not found after save")]
        ELSE out

createTransaction(accts, txs, seq, clock, request) ==
    Transactional(txs, createTransactionBody(accts, txs, seq, clock, request))

\* Lines 30-34 of findById, given the outcome of parseIdentifier
FindParsed(txs, transactionId) ==
    IF transactionId.thrown # "" THEN [kind |-> transactionId.thrown, value |-> {}]
    ELSE IF transactionId.value = {} THEN [kind |-> "ok", value |-> {}]
    ELSE [kind |-> "ok",
          value |-> {toDto(e) : e \in RepositoryFindById({}, txs,
                                         CHOOSE i \in transactionId.value : TRUE)}]

\* findById: Optional<TransactionDTO> (value), read outside any transaction;
\* kind is "ok" or the exception thrown
findById(txs, id) == FindParsed(txs, parseIdentifier(id))

(***************************************************************************)
(* AccountService.                                                         *)
(***************************************************************************)
AccountToDto(id, balance) == [id |-> StringValueOf(id), balance |-> balance]

\* the orders in which repository.findAll() can list the Account rows
RowOrders(accts) ==
    {order \in [1..Cardinality(DOMAIN accts) -> DOMAIN accts] :
        \A i, j \in DOMAIN order : order[i] = order[j] => i = j}

\* findAll that leaves out the accounts holding nothing
findAll_SkipsEmpty(accts, order) ==
    LET NonEmpty(id) == accts[id].unscaled # 0
    IN  [i \in 1..Len(SelectSeq(order, NonEmpty)) |->
            AccountToDto(SelectSeq(order, NonEmpty)[i], accts[SelectSeq(order, NonEmpty)[i]])]

\* findAll: the List<AccountDTO>, one element per row in the order read
findAll(accts, order) ==
    [i \in 1..Len(order) |-> AccountToDto(order[i], accts[order[i]])]

(***************************************************************************)
(* What createTransaction writes to the Account table: nothing. The only   *)
(* repository write of the service is transactionRepository.save.          *)
(***************************************************************************)
\* a createTransaction that moves the amount between the two balances
AccountsAfterSave_Transfer(accts, result) ==
    IF result.kind # "ok" THEN accts
    ELSE LET from == IntegerValueOf(result.dto.fromAccountId).value
             to == IntegerValueOf(result.dto.toAccountId).value
             moved == RoundToScale(result.dto.amount).unscaled
         IN  [accts EXCEPT ![from] = BigDecimal(@.unscaled - moved, NumericScale),
                           ![to] = BigDecimal(@.unscaled + moved, NumericScale)]

AccountsAfterSave(accts, result) == accts

(***************************************************************************)
(* TransactionController. A response is its status, its Location header    *)
(* and its body (each a set of at most one element) and the exception that *)
(* leaves the handler uncaught ("" when none does).                        *)
(***************************************************************************)
TransactionResponse(success, message, transaction) ==
    [success |-> success, message |-> message, transaction |-> transaction]

Unhandled(exception) ==
    [status |-> 500, location |-> {}, body |-> {}, exception |-> exception]

\* a handler with one catch block for both exceptions
PostTransaction_OneCatch(result) ==
    IF result.kind = "ok"
    THEN [status |-> 201,
          location |-> {<<"/api/payment/transaction/", result.dto.id>>},
          body |-> {TransactionResponse(TRUE, "Transaction created", result.dto)},
          exception |-> ""]
    ELSE IF result.kind \in {"IllegalArgumentException", "NoSuchElementException"}
    THEN [status |-> 400, location |-> {},
          body |-> {TransactionResponse(FALSE, result.message, NoDto)},
          exception |-> ""]
    ELSE Unhandled(result.kind)

\* TransactionController.createTransaction, given what the service returned
\* or threw
PostTransaction(result) ==
    IF result.kind = "ok"
    THEN [status |-> 201,
          location |-> {<<"/api/payment/transaction/", result.dto.id>>},
          body |-> {TransactionResponse(TRUE, "Transaction created", result.dto)},
          exception |-> ""]
    ELSE IF result.kind = "IllegalArgumentException"
    THEN [status |-> 400, location |-> {},
          body |-> {TransactionResponse(FALSE, result.message, NoDto)},
          exception |-> ""]
    ELSE IF result.kind = "NoSuchElementException"
    THEN [status |-> 404, location |-> {},
          body |-> {TransactionResponse(FALSE, result.message, NoDto)},
          exception |-> ""]
    ELSE Unhandled(result.kind)

\* TransactionController.getTransactionById, given what findById returned
\* or threw
getTransactionById(found) ==
    IF found.kind # "ok" THEN Unhandled(found.kind)
    ELSE IF found.value = {}
    THEN [status |-> 404, location |-> {}, body |-> {}, exception |-> ""]
    ELSE [status |-> 200, location |-> {}, body |-> found.value, exception |-> ""]

(***************************************************************************)
(* Requests the model draws.                                               *)
(***************************************************************************)
\* "1", "2", "01", "7", "x", " " and null
IdStrings == {<<49>>, <<50>>, <<48, 49>>, <<55>>, <<120>>, <<32>>, Null}

\* "1", "2" and "7": ids that parse
PlainIdStrings == {<<49>>, <<50>>, <<55>>}

\* 75.25 and 0
Amounts == {BigDecimal(7525, 2), BigDecimal(0, 0)}

\* 0.005, 0.004, 1E+10, -10 and null
MoreAmounts ==
    {BigDecimal(5, 3), BigDecimal(4, 3), BigDecimal(1, -10), BigDecimal(-10, 0),
     NullAmount}

\* "2147483648", "+2", "-1" and ""
MoreIdStrings ==
    {<<50, 49, 52, 55, 52, 56, 51, 54, 52, 56>>, <<43, 50>>, <<45, 49>>, <<>>}

Requests ==
    [fromAccountId : IdStrings, toAccountId : IdStrings, amount : Amounts]
        \cup [fromAccountId : PlainIdStrings, toAccountId : PlainIdStrings,
              amount : MoreAmounts]
        \cup [fromAccountId : MoreIdStrings, toAccountId : {<<49>>, <<55>>},
              amount : {BigDecimal(7525, 2)}]
        \cup [fromAccountId : {<<49>>, <<55>>}, toAccountId : MoreIdStrings,
              amount : {BigDecimal(7525, 2)}]
        \cup {NullRequest}

\* the instants CURRENT_TIMESTAMP can read during a call: the instant of the
\* newest row, or a later one. A request that validateRequest rejects
\* reaches no statement that reads the clock.
ClockReadings(txs, request) ==
    LET newest == IF txs = {} THEN 0
                  ELSE CHOOSE t \in {r.created_at : r \in txs} :
                           \A r \in txs : r.created_at <= t
    IN  IF validateRequest(request) = "" THEN {newest, newest + 1} ELSE {newest}

(***************************************************************************)
(* The tRPC server. A JavaScript string is a list of pieces, so that the   *)
(* piece "Bearer " can be found in it; a header or cookie may be absent    *)
(* (undefined).                                                            *)
(***************************************************************************)
Absent == [present |-> FALSE, parts |-> <<>>]

Str(parts) == [present |-> TRUE, parts |-> parts]

\* a value that is neither undefined nor ""
Truthy(s) == s.present /\ s.parts # <<>>

\* string.replace(piece, ""): the first occurrence is taken out
Replace(parts, piece) ==
    IF \E i \in DOMAIN parts : parts[i] = piece
    THEN LET i == CHOOSE k \in DOMAIN parts :
                      /\ parts[k] = piece
                      /\ \A j \in DOMAIN parts : parts[j] = piece => k <= j
         IN  SubSeq(parts, 1, i - 1) \o SubSeq(parts, i + 1, Len(parts))
    ELSE parts

\* authHeader?.replace("Bearer ", "") || ctx.req.cookies?.["sb-access-token"]
TokenOf(request) ==
    LET fromHeader == IF request.authorization.present
                      THEN Str(Replace(request.authorization.parts, "Bearer "))
                      ELSE Absent
    IN  IF Truthy(fromHeader) THEN fromHeader ELSE request.cookie

\* the sessions Supabase knows: the user of each access token
SessionUser(token) ==
    IF token.parts = <<"t1">> THEN "u1"
    ELSE IF token.parts = <<"t2">> THEN "u2"
    ELSE "null"

\* supabase.auth.getUser(token): the service answers (a user, or an error
\* for a token without session), cannot be reached (an error), or the call
\* throws
AuthOutcomes == {"answer", "unavailable", "throws"}

SupabaseGetUser(token, outcome) ==
    IF outcome = "throws" THEN [thrown |-> TRUE, user |-> "null", error |-> "none"]
    ELSE IF outcome = "unavailable"
    THEN [thrown |-> FALSE, user |-> "null", error |-> "fetch failed"]
    ELSE IF SessionUser(token) = "null"
    THEN [thrown |-> FALSE, user |-> "null", error |-> "invalid JWT"]
    ELSE [thrown |-> FALSE, user |-> SessionUser(token), error |-> "none"]

Unauthorized(message) ==
    [ok |-> FALSE, user |-> "null", code |-> "UNAUTHORIZED", message |-> message]

\* a middleware that lets every request with a token through
isAuthenticated_TrustsToken(request, outcome) ==
    IF ~Truthy(TokenOf(request)) THEN Unauthorized("Not authenticated")
    ELSE [ok |-> TRUE, user |-> SessionUser(TokenOf(request)), code |-> "none",
          message |-> "none"]

\* the middleware: ok means that it calls next with the user in the context
isAuthenticated(request, outcome) ==
    LET token == TokenOf(request)
        verdict == SupabaseGetUser(token, outcome)
    IN  IF ~Truthy(token) THEN Unauthorized("Not authenticated")
        ELSE IF verdict.thrown THEN Unauthorized("Authentication failed")
        ELSE IF verdict.error # "none" \/ verdict.user = "null"
        THEN Unauthorized("Invalid or expired session")
        ELSE [ok |-> TRUE, user |-> verdict.user, code |-> "none", message |-> "none"]

\* t.procedure.use(isAuthenticated): the handler runs when the middleware
\* calls next, and the error of the middleware is the result of the call
protectedProcedure(request, outcome) ==
    LET checked == isAuthenticated(request, outcome)
    IN  [handlerRan |-> checked.ok, user |-> checked.user, code |-> checked.code,
         message |-> checked.message]

\* the Authorization headers and sb-access-token cookies of the requests
AuthorizationHeaders ==
    {Absent, Str(<<>>), Str(<<"Bearer ">>), Str(<<"Bearer ", "t1">>),
     Str(<<"Bearer ", "t2">>), Str(<<"Bearer ", "bad">>), Str(<<"t1">>)}

Cookies == {Absent, Str(<<>>), Str(<<"t1">>), Str(<<"t2">>), Str(<<"bad">>)}

ProtectedRequests ==
    [authorization : AuthorizationHeaders, cookie : Cookies]

(***************************************************************************)
(* skincareRoutine.create and the table skincare_routine. Optional values  *)
(* of the input are "undefined" when left out, a NULL column is "null";    *)
(* the timestamps of a row are left out of the model.                      *)
(***************************************************************************)
Callers == 1..MaxCallers

\* the columns that hold text; the others hold an id or a list of numbers
TextColumns == {"user_id", "date", "skin_condition_rating", "skin_conditions", "notes"}

Columns == {"id", "morning_products", "evening_products"} \cup TextColumns

\* x || null
OrNull(x) == IF x \in {"undefined", "null", ""} THEN "null" ELSE x

\* JSON.stringify of the object sent to the database: a key whose value is
\* undefined is left out
JsonStringify(object) ==
    [k \in {c \in DOMAIN object : ~(c \in TextColumns /\ object[c] = "undefined")}
        |-> object[k]]

\* the object of .insert(...)
InsertPayload(user, input) ==
    JsonStringify(
        [user_id |-> user, date |-> input.date,
         morning_products |-> input.morningProducts,
         evening_products |-> input.eveningProducts,
         skin_condition_rating |-> input.skinConditionRating,
         skin_conditions |-> OrNull(input.skinConditions),
         notes |-> OrNull(input.notes)])

\* the object of .update(...)
UpdatePayload(input) ==
    JsonStringify(
        [morning_products |-> input.morningProducts,
         evening_products |-> input.eveningProducts,
         skin_condition_rating |-> input.skinConditionRating,
         skin_conditions |-> OrNull(input.skinConditions),
         notes |-> OrNull(input.notes)])

\* gen_random_uuid(): an id no row has
FreshId(rows) == CHOOSE id \in 1..(Cardinality(rows) + 1) : \A r \in rows : r.id # id

\* UNIQUE(user_id, date)
RoutineKeyTaken(rows, payload) ==
    \E r \in rows : r.user_id = payload.user_id /\ r.date = payload.date

\* no row: what data is when the statement failed
NoRoutine ==
    [c \in Columns |-> IF c = "id" THEN 0 ELSE IF c \in TextColumns THEN "null" ELSE <<>>]

\* INSERT ... RETURNING: the columns that are not sent get their default
InsertRoutine(rows, payload) ==
    IF RoutineKeyTaken(rows, payload)
    THEN [error |-> "23505", rows |-> rows, data |-> NoRoutine]
    ELSE LET row == [c \in Columns |->
                        IF c = "id" THEN FreshId(rows)
                        ELSE IF c \in DOMAIN payload THEN payload[c]
                        ELSE "null"]
         IN  [error |-> "none", rows |-> rows \cup {row}, data |-> row]

\* UPDATE ... WHERE user_id = .. AND date = .. RETURNING, read with .single():
\* only the columns that are sent change, and anything but one row is an error
UpdateRoutine(rows, payload, user, date) ==
    LET matched == {r \in rows : r.user_id = user /\ r.date = date}
        Patch(r) == [c \in Columns |-> IF c \in DOMAIN payload THEN payload[c] ELSE r[c]]
        patched == {Patch(r) : r \in matched}
        after == (rows \ matched) \cup patched
    IN  IF Cardinality(matched) = 1
        THEN [error |-> "none", rows |-> after, data |-> CHOOSE r \in patched : TRUE]
        ELSE [error |-> "PGRST116", rows |-> after, data |-> NoRoutine]

\* the object the procedure returns for a row
RoutineOutput(row) ==
    [id |-> row.id, date |-> row.date,
     morningProducts |-> row.morning_products,
     eveningProducts |-> row.evening_products,
     skinConditionRating |-> row.skin_condition_rating,
     skinConditions |-> row.skin_conditions,
     notes |-> row.notes]

RoutineOk(row) == [ok |-> TRUE, value |-> RoutineOutput(row), code |-> "none"]

RoutineError(code) == [ok |-> FALSE, value |-> RoutineOutput(NoRoutine), code |-> code]

\* the inputs of create, as createRoutineSchema leaves them
RoutineInputs ==
    {[date |-> "2025-01-01", morningProducts |-> <<7>>, eveningProducts |-> <<>>,
      skinConditionRating |-> "4", skinConditions |-> "{overall: 3}", notes |-> "itchy"],
     [date |-> "2025-01-01", morningProducts |-> <<>>, eveningProducts |-> <<9>>,
      skinConditionRating |-> "undefined", skinConditions |-> "undefined",
      notes |-> "undefined"],
     [date |-> "2025-01-02", morningProducts |-> <<7, 9>>, eveningProducts |-> <<>>,
      skinConditionRating |-> "2", skinConditions |-> "undefined", notes |-> ""]}

\* the requests of the callers of create
RoutineRequests ==
    {[authorization |-> Str(<<"Bearer ", "t1">>), cookie |-> Absent],
     [authorization |-> Absent, cookie |-> Str(<<"t2">>)],
     [authorization |-> Str(<<"Bearer ", "bad">>), cookie |-> Absent]}

(***************************************************************************)
(* The hook useAuth. auth holds the state of the hook (user, session,      *)
(* loading, firstSessionCheckDone), the options and the path of the page,  *)
(* the run of the session effect (closureDone is the firstSessionCheckDone *)
(* that run has captured, load the state of its getSession), and what is   *)
(* true outside the hook: stored, the session Supabase holds, and cached,  *)
(* whether localStorage has the key supabase.auth.token. retrieval is what *)
(* the hook last learned of the session.                                   *)
(***************************************************************************)
Unmounted ==
    [pc |-> "unmounted", redirectOnUnauthenticated |-> FALSE, pathname |-> "/",
     configured |-> TRUE, stored |-> "none", cached |-> FALSE,
     user |-> "null", session |-> "null", loading |-> TRUE,
     firstSessionCheckDone |-> FALSE, closureDone |-> FALSE, load |-> "none",
     retrieval |-> "pending"]

redirectPath == "/login"

Pathnames == {"/login", "/profile"}

\* the session Supabase holds
StoredSessions == {"none", "valid", "expired"}

\* finish(): the run of the effect is still mounted wherever it is called
finish(st) == [st EXCEPT !.loading = FALSE, !.firstSessionCheckDone = TRUE]

\* the body of the session effect up to its first await
SessionEffect(st) ==
    IF ~st.configured
    THEN [st EXCEPT !.loading = FALSE, !.firstSessionCheckDone = TRUE,
                    !.session = "null", !.user = "null",
                    !.closureDone = st.firstSessionCheckDone, !.load = "none"]
    ELSE [st EXCEPT !.closureDone = st.firstSessionCheckDone, !.load = "pending"]

\* the redirect effect
RedirectEffect(st) ==
    IF ~st.redirectOnUnauthenticated THEN st
    ELSE IF st.loading THEN st
    ELSE IF ~st.firstSessionCheckDone THEN st
    ELSE IF st.user = "null" /\ st.pathname # redirectPath
    THEN [st EXCEPT !.pc = "redirected"]
    ELSE st

\* the effects after a render, in the order of the hook, until no state
\* changes: the session effect runs again when firstSessionCheckDone is not
\* the one it has captured
RECURSIVE Rendered(_)
Rendered(st) ==
    LET again == IF st.firstSessionCheckDone # st.closureDone
                 THEN SessionEffect(st) ELSE st
        after == RedirectEffect(again)
    IN  IF after.pc = "redirected" \/ after = st THEN after ELSE Rendered(after)

\* load() after getSession has answered
LoadResolved(st, result) ==
    IF result = "error"
    THEN finish([st EXCEPT !.session = "null", !.user = "null", !.load = "settled",
                           !.retrieval = "error"])
    ELSE IF st.stored = "expired"
    THEN finish([st EXCEPT !.session = "null", !.user = "null", !.load = "settled",
                           !.stored = "none", !.retrieval = "expired"])
    ELSE IF st.stored = "valid"
    THEN finish([st EXCEPT !.session = "valid", !.user = "u1", !.load = "settled",
                           !.retrieval = "valid"])
    ELSE finish([st EXCEPT !.session = "null", !.user = "null", !.load = "settled",
                           !.retrieval = "null"])

\* load() after the 1500 ms of the race are over
LoadTimedOut(st) ==
    finish(IF ~st.cached
           THEN [st EXCEPT !.session = "null", !.user = "null", !.load = "settled",
                           !.retrieval = "timedout"]
           ELSE [st EXCEPT !.load = "settled", !.retrieval = "timedout"])

\* the callback of onAuthStateChange with the session of the event
OnAuthStateChange(st, newSession) ==
    LET marked == IF ~st.closureDone
                  THEN [st EXCEPT !.firstSessionCheckDone = TRUE] ELSE st
    IN  IF newSession = "expired"
        THEN [marked EXCEPT !.session = "null", !.user = "null", !.loading = FALSE,
                            !.stored = "none", !.retrieval = "expired"]
        ELSE IF newSession = "valid"
        THEN [marked EXCEPT !.session = "valid", !.user = "u1", !.loading = FALSE,
                            !.stored = "valid", !.retrieval = "valid"]
        ELSE [marked EXCEPT !.session = "null", !.user = "null", !.loading = FALSE,
                            !.stored = "none", !.retrieval = "null"]

(***************************************************************************)
(* CartProvider of the web client. The cart is the list `items` of         *)
(* {product, quantity}; a product is known by its id.                      *)
(***************************************************************************)
Products == {"p1", "p2"}

\* product.priceCents
PriceCents(product) == IF product = "p1" THEN 1999 ELSE 500

\* prev.findIndex((i) => i.product.id === product.id): 0 stands for -1
FindIndex(prev, productId) ==
    IF \E i \in DOMAIN prev : prev[i].product = productId
    THEN CHOOSE i \in DOMAIN prev :
             /\ prev[i].product = productId
             /\ \A j \in DOMAIN prev : prev[j].product = productId => i <= j
    ELSE 0

\* prev.filter((i) => i.product.id !== productId)
FilterOut(prev, productId) ==
    LET Other(i) == i.product # productId IN SelectSeq(prev, Other)

\* an addItem that appends whatever the cart holds
addItem_AlwaysAppends(prev, product, quantity) ==
    Append(prev, [product |-> product, quantity |-> quantity])

addItem(prev, product, quantity) ==
    LET idx == FindIndex(prev, product)
    IN  IF idx >= 1
        THEN [prev EXCEPT ![idx] = [@ EXCEPT !.quantity = @ + quantity]]
        ELSE Append(prev, [product |-> product, quantity |-> quantity])

removeItem(prev, productId) == FilterOut(prev, productId)

setQuantity(prev, productId, quantity) ==
    IF quantity <= 0 THEN FilterOut(prev, productId)
    ELSE [i \in DOMAIN prev |->
             IF prev[i].product = productId THEN [prev[i] EXCEPT !.quantity = quantity]
             ELSE prev[i]]

clear == <<>>

\* items.reduce((sum, i) => sum + i.product.priceCents * i.quantity, 0)
RECURSIVE totalCents(_)
totalCents(items) ==
    IF items = <<>> THEN 0
    ELSE totalCents(SubSeq(items, 1, Len(items) - 1))
         + PriceCents(items[Len(items)].product) * items[Len(items)].quantity

\* the quantities the callers of addItem and setQuantity pass
Quantities == {-1, 0, 1, 2}

\* every quantity of the cart is within the bound of the model
WithinBound(items) ==
    \A i \in DOMAIN items :
        items[i].quantity <= MaxQuantity /\ items[i].quantity >= -MaxQuantity

(***************************************************************************)
(* The checkout page (Payment) and the createTransaction of its payment    *)
(* client. A response is what fetch gives back: a network failure, or an   *)
(* HTTP status with a body that is JSON or not, whose success field is     *)
(* true, false or missing.                                                 *)
(***************************************************************************)
Responses ==
    {[kind |-> "network"]}
    \cup {[kind |-> "http", status |-> 200, json |-> TRUE, success |-> "true"],
          [kind |-> "http", status |-> 200, json |-> TRUE, success |-> "false"],
          [kind |-> "http", status |-> 400, json |-> TRUE, success |-> "false"],
          [kind |-> "http", status |-> 404, json |-> TRUE, success |-> "false"],
          [kind |-> "http", status |-> 500, json |-> TRUE, success |-> "missing"],
          [kind |-> "http", status |-> 502, json |-> FALSE, success |-> "missing"]}

\* res.ok
ResponseOk(response) == response.status >= 200 /\ response.status <= 299

\* a client that takes every HTTP response for a payment
ClientCreateTransaction_AnyResponse(response) ==
    IF response.kind = "http" THEN "resolved" ELSE "rejected"

\* createTransaction of the payment client: whether its promise resolves
ClientCreateTransaction(response) ==
    IF response.kind = "network" THEN "rejected"
    ELSE IF ~response.json THEN "rejected"
    ELSE IF ~ResponseOk(response) THEN "rejected"
    ELSE IF response.success # "true" THEN "rejected"
    ELSE "resolved"

\* what the user types into the account field
AccountInputs == {"", "2"}

\* the page before it is mounted: no field, no mutation, nothing in flight
Closed ==
    [open |-> FALSE, fromAccountId |-> "", isPending |-> FALSE, disabled |-> FALSE,
     current |-> 0, requests |-> {}, sent |-> 0, last |-> [op |-> "none"]]

(***************************************************************************)
(* Requests in flight together. Each request runs createTransaction on a   *)
(* thread of its own, inside one database transaction (read committed);    *)
(* sessions[t] is where thread t stands in the method, and what it holds.  *)
(***************************************************************************)
Threads == 1..MaxThreads

Idle == [pc |-> "idle"]

\* "1" -> "2", "2" -> "1", "1" -> "7" (no such account) and "1" -> "1", 75.25 each
ConcurrentRequests ==
    {[fromAccountId |-> <<49>>, toAccountId |-> <<50>>, amount |-> BigDecimal(7525, 2)],
     [fromAccountId |-> <<50>>, toAccountId |-> <<49>>, amount |-> BigDecimal(7525, 2)],
     [fromAccountId |-> <<49>>, toAccountId |-> <<55>>, amount |-> BigDecimal(7525, 2)],
     [fromAccountId |-> <<49>>, toAccountId |-> <<49>>, amount |-> BigDecimal(7525, 2)]}

\* the accounts another client deletes: the two existing ones the requests name
DeletableAccounts == {1, 2}

\* a lookup that locks the Account row it reads until the transaction ends
LookupLockMode_PessimisticWrite == "PESSIMISTIC_WRITE"

\* the lock mode of accountRepository.findById: JpaRepository declares none
LookupLockMode == "NONE"

\* the uncommitted row of a session, if it has inserted one
Pending(session) == IF session.pc = "commit" THEN {session.row} ELSE {}

\* the committed rows and the uncommitted ones: what the unique index of the
\* primary key and the sequence see
AllRows(txs, sess) == txs \cup UNION {Pending(sess[t]) : t \in DOMAIN sess}

\* the Account rows a session holds FOR KEY SHARE: the foreign-key check of
\* its insert locks the two rows the new row references until it commits
KeyShareLocks(session) ==
    UNION {{row.from_account_id, row.to_account_id} : row \in Pending(session)}

\* the Account rows a session holds FOR UPDATE
UpdateLocks(session) == IF session.pc \in {"idle", "done"} THEN {} ELSE session.locked

\* another session holds a lock on Account row a that conflicts with `mode`
Blocked(sess, t, a, mode) ==
    \E u \in DOMAIN sess \ {t} :
        \/ a \in UpdateLocks(sess[u])
        \/ mode # "KEY SHARE" /\ a \in KeyShareLocks(sess[u])

\* the session once the method has returned or thrown; lookedUp tells that
\* both existence checks passed, accountsAtSave is the Account ids there
\* were when save ran, overlapped that another request was in flight
Done(session, result, accountsAtSave, overlapped) ==
    [pc |-> "done", request |-> session.request, result |-> result,
     response |-> PostTransaction(result),
     lookedUp |-> session.pc \in {"save", "commit"},
     accountsAtSave |-> accountsAtSave, overlapped |-> overlapped]

\* lines 39-42: validateRequest and the two parseAccountIdentifier calls
Validated(request) ==
    LET invalid == validateRequest(request)
        from == parseAccountIdentifier("fromAccountId", request.fromAccountId)
        to == parseAccountIdentifier("toAccountId", request.toAccountId)
    IN  IF invalid # "" THEN Done([pc |-> "begin", request |-> request],
                                  Throw("IllegalArgumentException", invalid), {}, FALSE)
        ELSE IF ~from.ok THEN Done([pc |-> "begin", request |-> request],
                                   Throw("IllegalArgumentException", from.message), {}, FALSE)
        ELSE IF ~to.ok THEN Done([pc |-> "begin", request |-> request],
                                 Throw("IllegalArgumentException", to.message), {}, FALSE)
        ELSE [pc |-> "lookupFrom", request |-> request, from |-> from.value,
              to |-> to.value, locked |-> {}]

\* lines 44-45 and 46-47: one accountRepository.findById(...).orElseThrow
Lookup(accts, session, id, message, nextPc) ==
    IF AccountExists(accts, id)
    THEN [session EXCEPT !.pc = nextPc,
                         !.locked = IF LookupLockMode = "PESSIMISTIC_WRITE"
                                    THEN @ \cup {id} ELSE @]
    ELSE Done(session, Throw("NoSuchElementException", message), {}, FALSE)

\* lines 49-59 given the outcome of the INSERT: on a constraint violation the
\* exception leaves the method and nothing stays inserted; otherwise the row
\* stays uncommitted until the method returns
Saved(accts, session, ins) ==
    LET out == SaveAndReturn(ins, session.from, session.to, session.request.amount)
    IN  IF out.result.kind # "ok" THEN Done(session, out.result, DOMAIN accts, FALSE)
        ELSE [pc |-> "commit", request |-> session.request, from |-> session.from,
              to |-> session.to, locked |-> session.locked,
              row |-> CHOOSE row \in ins.transactions : row.id = ins.id,
              result |-> out.result, accountsAtSave |-> DOMAIN accts]

\* the mid-flight sessions other than t
InFlight(sess, t) == {u \in DOMAIN sess \ {t} : sess[u].pc \notin {"idle", "done"}}

(***************************************************************************)
(* The state machine: one action per service call.                         *)
(***************************************************************************)
Init ==
    /\ accounts = SeedAccounts
    /\ transactions = SeedTransactions
    /\ txSeq = 2
    /\ call = [op |-> "none"]
    /\ created = <<>>
    /\ sessions = [t \in Threads |-> Idle]
    /\ cart = <<>>
    /\ cartCall = [op |-> "none"]
    /\ checkout = Closed
    /\ procCall = [op |-> "none"]
    /\ routines = {}
    /\ rpc = [t \in Callers |-> Idle]
    /\ auth = Unmounted

\* POST /api/payment/transaction
CreateTransaction(request) ==
    /\ \E clock \in ClockReadings(transactions, request) :
       \E out \in {createTransaction(accounts, transactions, txSeq, clock, request)} :
           /\ out.txSeq <= MaxTxId + 1
           /\ transactions' = out.transactions
           /\ txSeq' = out.txSeq
           /\ accounts' = AccountsAfterSave(accounts, out.result)
           /\ call' = [op |-> "createTransaction", request |-> request,
                       result |-> out.result, response |-> PostTransaction(out.result),
                       idDrawn |-> txSeq,
                       transactionsBefore |-> transactions, accountsBefore |-> accounts]
           /\ created' = IF out.result.kind = "ok" THEN Append(created, out.result.dto)
                          ELSE created
    /\ UNCHANGED <<sessions, webVars>>

\* what the call before this one returned, when it was a GET of the same id
PreviousFind(last, id) ==
    IF last.op = "findById" /\ last.id = id
    THEN {[result |-> last.result, response |-> last.response]}
    ELSE {}

\* a GET that removes the row it returns
FindById_Consuming(id) ==
    /\ \E found \in {findById(transactions, id)} :
           /\ call' = [op |-> "findById", id |-> id, result |-> found,
                       response |-> getTransactionById(found),
                       previous |-> PreviousFind(call, id)]
           /\ transactions' = {t \in transactions :
                                  \A d \in found.value : d.id # StringValueOf(t.id)}
    /\ UNCHANGED <<accounts, txSeq, created, sessions, webVars>>

\* GET /api/payment/transaction/{id}
FindById(id) ==
    /\ \E found \in {findById(transactions, id)} :
           call' = [op |-> "findById", id |-> id, result |-> found,
                    response |-> getTransactionById(found),
                    previous |-> PreviousFind(call, id)]
    /\ UNCHANGED <<accounts, transactions, txSeq, created, sessions, webVars>>

\* GET /api/payment/accounts
FindAll ==
    /\ \E order \in RowOrders(accounts) :
           call' = [op |-> "findAll", result |-> findAll(accounts, order),
                    transactionsBefore |-> transactions, accountsBefore |-> accounts]
    /\ UNCHANGED <<accounts, transactions, txSeq, created, sessions, webVars>>

Next ==
    \/ \E request \in Requests : CreateTransaction(request)
    \/ \E id \in IdStrings \cup MoreIdStrings : FindById(id)
    \/ FindAll

Spec == Init /\ [][Next]_vars

(***************************************************************************)
(* The state machine of requests in flight together: one action per        *)
(* database round trip of createTransaction, and the deletion of an        *)
(* Account row by another client of the database.                          *)
(***************************************************************************)
\* a POST arrives on thread t: the transaction begins, lines 39-42 run
Begin(t, request) ==
    /\ sessions[t].pc = "idle"
    /\ sessions' = [sessions EXCEPT ![t] = Validated(request)]
    /\ UNCHANGED <<accounts, transactions, txSeq, call, created, webVars>>

\* lines 44-45
LookupFrom(t) ==
    /\ sessions[t].pc = "lookupFrom"
    /\ ~(LookupLockMode = "PESSIMISTIC_WRITE"
          /\ Blocked(sessions, t, sessions[t].from, "UPDATE"))
    /\ sessions' = [sessions EXCEPT ![t] =
                       Lookup(accounts, @, @.from, "Source account not found", "lookupTo")]
    /\ UNCHANGED <<accounts, transactions, txSeq, call, created, webVars>>

\* lines 46-47
LookupTo(t) ==
    /\ sessions[t].pc = "lookupTo"
    /\ ~(LookupLockMode = "PESSIMISTIC_WRITE"
          /\ Blocked(sessions, t, sessions[t].to, "UPDATE"))
    /\ sessions' = [sessions EXCEPT ![t] =
                       Lookup(accounts, @, @.to, "Destination account not found", "save")]
    /\ UNCHANGED <<accounts, transactions, txSeq, call, created, webVars>>

\* lines 49-59: the INSERT, which waits while another transaction holds a
\* conflicting lock on a referenced Account row, and the re-read
Save(t) ==
    /\ sessions[t].pc = "save"
    /\ ~Blocked(sessions, t, sessions[t].from, "KEY SHARE")
    /\ ~Blocked(sessions, t, sessions[t].to, "KEY SHARE")
    /\ \E rows \in {AllRows(transactions, sessions)} :
       \E clock \in ClockReadings(rows, sessions[t].request) :
       \E ins \in {InsertTransaction(accounts, rows, txSeq, clock, sessions[t].from,
                                      sessions[t].to, sessions[t].request.amount)} :
           /\ txSeq' = ins.txSeq
           /\ sessions' = [sessions EXCEPT ![t] = Saved(accounts, @, ins)]
    /\ UNCHANGED <<accounts, transactions, call, created, webVars>>

\* line 60: the method returns and @Transactional commits
Commit(t) ==
    /\ sessions[t].pc = "commit"
    /\ transactions' = transactions \cup {sessions[t].row}
    /\ sessions' = [sessions EXCEPT ![t] =
                       Done(@, @.result, @.accountsAtSave, InFlight(sessions, t) # {})]
    /\ UNCHANGED <<accounts, txSeq, call, created, webVars>>

\* another client deletes Account row a: the delete waits while a
\* transaction holds a lock on the row, and cascades to the Transaction
\* rows that reference it
DeleteAccount(a) ==
    /\ a \in DOMAIN accounts
    /\ ~Blocked(sessions, 0, a, "UPDATE")
    /\ accounts' = [b \in DOMAIN accounts \ {a} |-> accounts[b]]
    /\ transactions' = {row \in transactions :
                           row.from_account_id # a /\ row.to_account_id # a}
    /\ UNCHANGED <<txSeq, call, created, sessions, webVars>>

\* the steps thread t takes by itself once its request has arrived
Handler(t) == LookupFrom(t) \/ LookupTo(t) \/ Save(t) \/ Commit(t)

ConcurrentNext ==
    \/ \E t \in Threads : \E request \in ConcurrentRequests : Begin(t, request)
    \/ \E t \in Threads : LookupFrom(t)
    \/ \E t \in Threads : LookupTo(t)
    \/ \E t \in Threads : Save(t)
    \/ \E t \in Threads : Commit(t)
    \/ \E a \in DeletableAccounts : DeleteAccount(a)

ConcurrentSpec == Init /\ [][ConcurrentNext]_vars

\* each request has a servlet thread of its own, which keeps running
FairConcurrentSpec ==
    Init /\ [][ConcurrentNext]_vars /\ \A t \in Threads : WF_vars(Handler(t))

(***************************************************************************)
(* A call of a protected procedure: procCall holds the request, what       *)
(* Supabase did and what became of the call.                               *)
(***************************************************************************)
ProtectedCall(request, outcome) ==
    /\ procCall' = [op |-> "call", request |-> request, outcome |-> outcome,
                    result |-> protectedProcedure(request, outcome)]
    /\ UNCHANGED <<paymentVars, cartVars, checkout, routines, rpc, auth>>

ProtectedNext ==
    \E request \in ProtectedRequests : \E outcome \in AuthOutcomes :
        ProtectedCall(request, outcome)

ProtectedSpec == Init /\ [][ProtectedNext]_vars

(***************************************************************************)
(* The state machine of skincareRoutine.create. The statements of a call   *)
(* on the table are steps of their own, so that calls overlap; rpc[t] is   *)
(* the call of caller t.                                                    *)
(***************************************************************************)
RoutineDone(request, input, user, path, result, row) ==
    [pc |-> "done", request |-> request, input |-> input, user |-> user,
     path |-> path, result |-> result, row |-> row]

\* the middleware, getUser of the handler and the insert
Create(t, request, input, found) ==
    /\ rpc[t].pc = "idle"
    /\ \E proc \in {protectedProcedure(request, "answer")} :
       IF ~proc.handlerRan
       THEN /\ rpc' = [rpc EXCEPT ![t] =
                   RoutineDone(request, input, "null", "middleware",
                               RoutineError(proc.code), NoRoutine)]
            /\ UNCHANGED routines
       ELSE IF ~found
       THEN /\ rpc' = [rpc EXCEPT ![t] =
                   RoutineDone(request, input, "null", "getUser",
                               RoutineError("UNAUTHORIZED"), NoRoutine)]
            /\ UNCHANGED routines
       ELSE \E ins \in {InsertRoutine(routines, InsertPayload(proc.user, input))} :
            /\ routines' = ins.rows
            /\ rpc' = [rpc EXCEPT ![t] =
                   IF ins.error = "23505"
                   THEN [pc |-> "update", request |-> request, input |-> input,
                         user |-> proc.user]
                   ELSE RoutineDone(request, input, proc.user, "insert",
                                    RoutineOk(ins.data), ins.data)]
    /\ UNCHANGED <<paymentVars, cartVars, checkout, procCall, auth>>

\* the update after the duplicate key
UpdateExisting(t) ==
    /\ rpc[t].pc = "update"
    /\ \E upd \in {UpdateRoutine(routines, UpdatePayload(rpc[t].input), rpc[t].user,
                                   rpc[t].input.date)} :
        /\ routines' = upd.rows
        /\ rpc' = [rpc EXCEPT ![t] =
               RoutineDone(rpc[t].request, rpc[t].input, rpc[t].user, "update",
                           IF upd.error = "none" THEN RoutineOk(upd.data)
                           ELSE RoutineError("INTERNAL_SERVER_ERROR"),
                           upd.data)]
    /\ UNCHANGED <<paymentVars, cartVars, checkout, procCall, auth>>

\* the caller has its answer
Return(t) ==
    /\ rpc[t].pc = "done"
    /\ rpc' = [rpc EXCEPT ![t] = Idle]
    /\ UNCHANGED <<paymentVars, cartVars, checkout, procCall, routines, auth>>

RoutineNext ==
    \/ \E t \in Callers : \E request \in RoutineRequests :
       \E input \in RoutineInputs : \E found \in BOOLEAN :
           Create(t, request, input, found)
    \/ \E t \in Callers : UpdateExisting(t)
    \/ \E t \in Callers : Return(t)

RoutineSpec == Init /\ [][RoutineNext]_vars

(***************************************************************************)
(* The state machine of useAuth. The 2000 ms timer of the session effect   *)
(* is cleared by whichever way load ends, which is after 1500 ms at the    *)
(* latest, so it has no action.                                            *)
(***************************************************************************)
\* a component with the hook is mounted: first render and first effects
Mount(option, pathname, configured, stored, cached) ==
    /\ auth.pc = "unmounted"
    /\ configured \/ stored = "none"
    /\ auth' = Rendered(SessionEffect(
                   [Unmounted EXCEPT !.pc = "running",
                                     !.redirectOnUnauthenticated = option,
                                     !.pathname = pathname, !.configured = configured,
                                     !.stored = stored, !.cached = cached]))
    /\ UNCHANGED <<paymentVars, cartVars, checkout, serverVars>>

\* getSession answers before the 1500 ms are over
GetSessionResolves(result) ==
    /\ auth.pc = "running" /\ auth.load = "pending"
    /\ auth' = Rendered(LoadResolved(auth, result))
    /\ UNCHANGED <<paymentVars, cartVars, checkout, serverVars>>

\* the 1500 ms are over before getSession answers
SessionCheckTimeout ==
    /\ auth.pc = "running" /\ auth.load = "pending"
    /\ auth' = Rendered(LoadTimedOut(auth))
    /\ UNCHANGED <<paymentVars, cartVars, checkout, serverVars>>

\* Supabase tells of a sign-in, a sign-out or the session it starts with
AuthStateChange(newSession) ==
    /\ auth.pc = "running" /\ auth.configured
    /\ auth' = Rendered(OnAuthStateChange(auth, newSession))
    /\ UNCHANGED <<paymentVars, cartVars, checkout, serverVars>>

UseAuthNext ==
    \/ \E option \in BOOLEAN : \E pathname \in Pathnames : \E configured \in BOOLEAN :
       \E stored \in StoredSessions : \E cached \in BOOLEAN :
           Mount(option, pathname, configured, stored, cached)
    \/ \E result \in {"answer", "error"} : GetSessionResolves(result)
    \/ SessionCheckTimeout
    \/ \E newSession \in StoredSessions : AuthStateChange(newSession)

UseAuthSpec == Init /\ [][UseAuthNext]_vars

(***************************************************************************)
(* The state machine of the cart: one action per function of the context.  *)
(* cartCall holds the last call and the items as they were before it.      *)
(***************************************************************************)
AddItem(product, quantity) ==
    /\ \E next \in {addItem(cart, product, quantity)} :
           /\ WithinBound(next)
           /\ cart' = next
           /\ cartCall' = [op |-> "addItem", product |-> product, quantity |-> quantity,
                           before |-> cart]
    /\ UNCHANGED <<paymentVars, checkout, serverVars, auth>>

RemoveItem(productId) ==
    /\ cart' = removeItem(cart, productId)
    /\ cartCall' = [op |-> "removeItem", product |-> productId, before |-> cart]
    /\ UNCHANGED <<paymentVars, checkout, serverVars, auth>>

SetQuantity(productId, quantity) ==
    /\ cart' = setQuantity(cart, productId, quantity)
    /\ cartCall' = [op |-> "setQuantity", product |-> productId, quantity |-> quantity,
                    before |-> cart]
    /\ UNCHANGED <<paymentVars, checkout, serverVars, auth>>

Clear ==
    /\ cart' = clear
    /\ cartCall' = [op |-> "clear", before |-> cart]
    /\ UNCHANGED <<paymentVars, checkout, serverVars, auth>>

CartNext ==
    \/ \E product \in Products : \E quantity \in Quantities : AddItem(product, quantity)
    \/ \E productId \in Products : RemoveItem(productId)
    \/ \E productId \in Products : \E quantity \in Quantities :
           SetQuantity(productId, quantity)
    \/ Clear

CartSpec == Init /\ [][CartNext]_vars

(***************************************************************************)
(* The state machine of the checkout page. checkout.isPending is the state *)
(* of the mutation observer and checkout.disabled the attribute of the     *)
(* button as last rendered; the observer tells the component of a change   *)
(* in a later task (Render), and any render reads the observer's state.    *)
(* checkout.requests are the requests in flight, checkout.current the      *)
(* mutation the observer follows, checkout.last the last step.             *)
(***************************************************************************)
\* the route /checkout is entered: a new component with a new observer
Open ==
    /\ ~checkout.open
    /\ checkout' = [checkout EXCEPT !.open = TRUE, !.fromAccountId = "",
                       !.isPending = FALSE, !.disabled = FALSE, !.current = 0,
                       !.last = [op |-> "open"]]
    /\ UNCHANGED <<paymentVars, cartVars, serverVars, auth>>

\* the user goes to another route
Leave ==
    /\ checkout.open
    /\ checkout' = [checkout EXCEPT !.open = FALSE, !.last = [op |-> "leave"]]
    /\ UNCHANGED <<paymentVars, cartVars, serverVars, auth>>

\* onChange of the account field
TypeAccountId(value) ==
    /\ checkout.open /\ cart # <<>>
    /\ checkout' = [checkout EXCEPT !.fromAccountId = value,
                       !.disabled = checkout.isPending,
                       !.last = [op |-> "type"]]
    /\ UNCHANGED <<paymentVars, cartVars, serverVars, auth>>

\* handleConfirm, the onClick of the button that is not disabled
Confirm ==
    /\ checkout.open /\ cart # <<>> /\ ~checkout.disabled
    /\ \/ /\ checkout.fromAccountId = ""
          /\ checkout' = [checkout EXCEPT !.last =
                 [op |-> "confirm", fromAccountId |-> "", cartBefore |-> cart,
                  requestsBefore |-> checkout.requests]]
       \/ /\ checkout.fromAccountId # ""
          /\ checkout.sent < MaxRequests
          /\ checkout' = [checkout EXCEPT
                 !.sent = @ + 1, !.requests = @ \cup {checkout.sent + 1},
                 !.current = checkout.sent + 1, !.isPending = TRUE,
                 !.last = [op |-> "confirm", fromAccountId |-> checkout.fromAccountId,
                           cartBefore |-> cart, requestsBefore |-> checkout.requests]]
    /\ UNCHANGED <<paymentVars, cartVars, serverVars, auth>>

\* the observer's notification arrives and the component renders again
Render ==
    /\ checkout.open
    /\ checkout.disabled # checkout.isPending
    /\ checkout' = [checkout EXCEPT !.disabled = checkout.isPending,
                       !.last = [op |-> "render"]]
    /\ UNCHANGED <<paymentVars, cartVars, serverVars, auth>>

\* a request in flight ends: onSuccess clears the cart and leaves the page,
\* onError shows the message
Respond(id, response) ==
    /\ id \in checkout.requests
    /\ \E outcome \in {ClientCreateTransaction(response)} :
        /\ checkout' = [checkout EXCEPT
               !.requests = @ \ {id},
               !.isPending = IF id = checkout.current THEN FALSE ELSE @,
               !.open = IF outcome = "resolved" THEN FALSE ELSE @,
               !.last = [op |-> "settle", response |-> response, outcome |-> outcome,
                         cartBefore |-> cart]]
        /\ IF outcome = "resolved"
           THEN /\ cart' = clear
                /\ cartCall' = [op |-> "clear", before |-> cart]
           ELSE UNCHANGED cartVars
    /\ UNCHANGED <<paymentVars, serverVars, auth>>

CheckoutNext ==
    \/ \E product \in Products : AddItem(product, 1)
    \/ Open
    \/ Leave
    \/ \E value \in AccountInputs : TypeAccountId(value)
    \/ Confirm
    \/ Render
    \/ \E id \in 1..MaxRequests : \E response \in Responses : Respond(id, response)

CheckoutSpec == Init /\ [][CheckoutNext]_vars

(***************************************************************************)
(* Properties of createTransaction. `call` holds the last call: its        *)
(* request, its result and the tables as they were when it began.          *)
(***************************************************************************)
IsCreate == call.op = "createTransaction"
Created == IsCreate /\ call.result.kind = "ok"
Failed == IsCreate /\ call.result.kind # "ok"
HasFields == IsCreate /\ call.request # NullRequest
InvalidArgument == call.result.kind = "IllegalArgumentException"
NotFound == call.result.kind = "NoSuchElementException"
NothingInserted == transactions = call.transactionsBefore

\* the string is accepted by Integer.valueOf
Parseable(s) == IntegerValueOf(s).ok
AccountIdOf(s) == IntegerValueOf(s).value
PositiveAmount(a) == a # NullAmount /\ a.unscaled > 0

\* C1: a request whose two ids parse to different existing accounts and
\* whose amount is > 0 succeeds and returns a transaction with the
\* request's fromAccountId, toAccountId (as account ids) and amount and an id
\* no earlier transaction has.
C1_ValidRequestSucceeds ==
    (/\ HasFields
     /\ Parseable(call.request.fromAccountId) /\ Parseable(call.request.toAccountId)
     /\ AccountIdOf(call.request.fromAccountId) # AccountIdOf(call.request.toAccountId)
     /\ AccountIdOf(call.request.fromAccountId) \in DOMAIN call.accountsBefore
     /\ AccountIdOf(call.request.toAccountId) \in DOMAIN call.accountsBefore
     /\ PositiveAmount(call.request.amount))
    => /\ Created
       /\ AccountIdOf(call.result.dto.fromAccountId) = AccountIdOf(call.request.fromAccountId)
       /\ AccountIdOf(call.result.dto.toAccountId) = AccountIdOf(call.request.toAccountId)
       /\ NumEq(call.result.dto.amount, call.request.amount)
       /\ \A t \in call.transactionsBefore : StringValueOf(t.id) # call.result.dto.id

\* C2: a request whose fromAccountId equals its toAccountId fails with an
\* invalid-argument error whatever its amount, and inserts no row.
C2_SameAccountRejected ==
    (HasFields /\ call.request.fromAccountId = call.request.toAccountId)
    => InvalidArgument /\ NothingInserted

C2_Witness ==
    /\ HasFields
    /\ call.request.fromAccountId = <<49>> /\ call.request.toAccountId = <<49>>
    /\ call.request.amount = BigDecimal(7525, 2)
    /\ InvalidArgument /\ NothingInserted

\* C3: a request whose amount is null or <= 0 fails with an
\* invalid-argument error and inserts no row, whether or not its accounts
\* exist.
C3_NonPositiveAmountRejected ==
    (HasFields /\ ~PositiveAmount(call.request.amount))
    => InvalidArgument /\ NothingInserted

C3_Witness ==
    /\ HasFields
    /\ call.request.fromAccountId = <<49>> /\ call.request.toAccountId = <<55>>
    /\ call.request.amount = BigDecimal(0, 0)
    /\ InvalidArgument /\ NothingInserted

\* C4: a request that passes validation and parsing and names an account
\* that does not exist fails with a not-found error naming the missing
\* side, the source side when both are missing, and inserts no row.
C4_MissingAccountNamed ==
    (/\ HasFields
     /\ validateRequest(call.request) = ""
     /\ Parseable(call.request.fromAccountId) /\ Parseable(call.request.toAccountId)
     /\ \/ AccountIdOf(call.request.fromAccountId) \notin DOMAIN call.accountsBefore
        \/ AccountIdOf(call.request.toAccountId) \notin DOMAIN call.accountsBefore)
    => /\ NotFound
       /\ call.result.message =
              IF AccountIdOf(call.request.fromAccountId) \notin DOMAIN call.accountsBefore
              THEN "Source account not found"
              ELSE "Destination account not found"
       /\ NothingInserted

C4_Witness ==
    /\ HasFields
    /\ call.request.fromAccountId = <<55>> /\ call.request.toAccountId = <<45, 49>>
    /\ call.request.amount = BigDecimal(7525, 2)
    /\ NotFound /\ call.result.message = "Source account not found"

\* the six checks of the claimed order, each stated on its own
CheckFails(n, request) ==
    CASE n = 1 -> request.fromAccountId = Null \/ isBlank(request.fromAccountId)
      [] n = 2 -> request.toAccountId = Null \/ isBlank(request.toAccountId)
      [] n = 3 -> request.fromAccountId = request.toAccountId
      [] n = 4 -> ~PositiveAmount(request.amount)
      [] n = 5 -> ~Parseable(request.fromAccountId)
      [] n = 6 -> ~Parseable(request.toAccountId)

CheckMessage(n) ==
    CASE n = 1 -> "fromAccountId is required"
      [] n = 2 -> "toAccountId is required"
      [] n = 3 -> "fromAccountId and toAccountId must be different"
      [] n = 4 -> "amount must be greater than 0"
      [] n = 5 -> "fromAccountId must be a numeric identifier"
      [] n = 6 -> "toAccountId must be a numeric identifier"

FailingChecks(request) == {n \in 1..6 : CheckFails(n, request)}

FirstFailingCheck(request) ==
    CHOOSE n \in FailingChecks(request) : \A m \in FailingChecks(request) : n <= m

\* C5: the checks are applied in the order (1) fromAccountId missing or
\* blank, (2) toAccountId missing or blank, (3) the two ids equal, (4)
\* amount null or <= 0, (5) fromAccountId not parseable, (6) toAccountId
\* not parseable; the call reports the first that fails as an
\* invalid-argument error, and the six messages differ from each other.
C5_FirstFailingCheckReported ==
    /\ \A m, n \in 1..6 : m # n => CheckMessage(m) # CheckMessage(n)
    /\ (HasFields /\ FailingChecks(call.request) # {})
       => /\ InvalidArgument
          /\ call.result.message = CheckMessage(FirstFailingCheck(call.request))

C5_Witness ==
    /\ HasFields
    /\ call.request.fromAccountId = <<120>> /\ call.request.toAccountId = <<120>>
    /\ call.request.amount = BigDecimal(0, 0)
    /\ FailingChecks(call.request) = {3, 4, 5, 6}
    /\ call.result.message = "fromAccountId and toAccountId must be different"

\* C6: the transaction a successful call returns has a createdAt that is
\* not null and is the created_at of the row the call inserted.
C6_CreatedAtReturned ==
    Created
    => /\ call.result.dto.createdAt # {}
       /\ \E row \in transactions :
              /\ StringValueOf(row.id) = call.result.dto.id
              /\ \A c \in call.result.dto.createdAt : c.dateTime = row.created_at

\* C7: a call that ends in an error leaves the "Transaction" table and the
\* "Account" table as they were when it began.
C7_ErrorLeavesNoTrace ==
    Failed => NothingInserted /\ accounts = call.accountsBefore

C7_Witness ==
    /\ Failed
    /\ call.result.kind = "DataIntegrityViolationException"
    /\ NothingInserted /\ accounts = call.accountsBefore

\* C8: a successful call adds exactly one row to the "Transaction" table,
\* and the transaction returned carries that row's id and account ids.
C8_ExactlyOneRowInserted ==
    Created
    => \E row \in transactions \ call.transactionsBefore :
           /\ transactions = call.transactionsBefore \cup {row}
           /\ Cardinality(transactions) = Cardinality(call.transactionsBefore) + 1
           /\ call.result.dto.id = StringValueOf(row.id)
           /\ call.result.dto.fromAccountId = StringValueOf(row.from_account_id)
           /\ call.result.dto.toAccountId = StringValueOf(row.to_account_id)

C8_Witness ==
    /\ Created
    /\ Cardinality(transactions) = Cardinality(call.transactionsBefore) + 1

\* C9: every row of the "Transaction" table has different source and
\* destination accounts and an amount > 0.
C9_RowsDistinctAndPositive ==
    \A row \in transactions :
        row.from_account_id # row.to_account_id /\ Signum(row.amount) = 1

C9_Witness ==
    /\ Created
    /\ call.request.amount = BigDecimal(5, 3)
    /\ \E row \in transactions \ SeedTransactions : row.amount = BigDecimal(1, 2)

\* C10: no call of the service changes or removes a row of the
\* "Transaction" table: a row of one state is a row, with the same id,
\* accounts, amount and created_at, of the next.
C10_RowsImmutable == [][\A row \in transactions : row \in transactions']_vars

C10_Witness ==
    /\ call.op = "findById"
    /\ \E row \in transactions : row \notin SeedTransactions
    /\ SeedTransactions \subseteq transactions

(***************************************************************************)
(* Properties of the three calls together, of the controller and of the    *)
(* reads. `created` lists the transactions the successful creates          *)
(* returned, oldest first.                                                 *)
(***************************************************************************)
IsFindById == call.op = "findById"
IsFindAll == call.op = "findAll"

\* the id is null, blank or not accepted by Integer.valueOf
BadId(s) == s = Null \/ isBlank(s) \/ ~Parseable(s)

\* C11: after any sequence of createTransaction, findById and findAll calls
\* the Account table has the seeded accounts, each with its seeded balance.
C11_BalancesNeverChange ==
    /\ DOMAIN accounts = DOMAIN SeedAccounts
    /\ \A a \in DOMAIN SeedAccounts : accounts[a] = SeedAccounts[a]

C11_Witness ==
    /\ Created
    /\ Len(created) = 1
    /\ \A a \in DOMAIN SeedAccounts : accounts[a] = SeedAccounts[a]

\* the request fails validateRequest or holds an id that does not parse
InvalidRequest(request) ==
    \/ validateRequest(request) # ""
    \/ ~Parseable(request.fromAccountId)
    \/ ~Parseable(request.toAccountId)

\* the request is valid and names an account that is not there
MissingAccount(request, accts) ==
    /\ ~InvalidRequest(request)
    /\ \/ AccountIdOf(request.fromAccountId) \notin DOMAIN accts
       \/ AccountIdOf(request.toAccountId) \notin DOMAIN accts

\* C13: the POST answers each outcome with one response: success with 201,
\* the Location /api/payment/transaction/<id> and a success=true body holding
\* the transaction; an invalid request with 400 and a missing account with
\* 404, both with a success=false body holding a message and no
\* transaction; any other failure leaves the handler as an exception and is
\* never answered with 201, 400 or 404.
C13_OneResponsePerOutcome ==
    IsCreate =>
        LET r == call.response
            failure(status) ==
                /\ r.status = status /\ r.exception = "" /\ r.location = {}
                /\ Cardinality(r.body) = 1
                /\ \A b \in r.body : /\ b.success = FALSE
                                      /\ b.message = call.result.message
                                      /\ b.message # ""
                                      /\ b.transaction = NoDto
        IN  /\ Created =>
                /\ r.status = 201 /\ r.exception = ""
                /\ r.location = {<<"/api/payment/transaction/", call.result.dto.id>>}
                /\ Cardinality(r.body) = 1
                /\ \A b \in r.body : b.success = TRUE /\ b.transaction = call.result.dto
            /\ InvalidRequest(call.request) => failure(400)
            /\ MissingAccount(call.request, call.accountsBefore) => failure(404)
            /\ (/\ ~Created /\ ~InvalidRequest(call.request)
                /\ ~MissingAccount(call.request, call.accountsBefore))
               => /\ r.exception # "" /\ r.body = {}
                  /\ r.status \notin {201, 400, 404}

\* a valid request on existing accounts that the database rejects
C13_Witness ==
    /\ IsCreate
    /\ ~InvalidRequest(call.request)
    /\ ~MissingAccount(call.request, call.accountsBefore)
    /\ call.response.exception = "DataIntegrityViolationException"

\* C14: findById of a null, blank or unparseable id returns the empty
\* Optional, answered with 404, and throws nothing.
C14_BadIdNotFound ==
    (IsFindById /\ BadId(call.id))
    => /\ call.result = [kind |-> "ok", value |-> {}]
       /\ call.response.status = 404 /\ call.response.exception = ""

C14_Witness ==
    /\ IsFindById /\ call.id = <<120>>
    /\ call.result.value = {} /\ call.response.status = 404

\* C15: findById of an id that parses to n returns the stored transaction
\* whose id is n, with that row's accounts and amount, answered with 200,
\* when there is one, and nothing, answered with 404, when there is none; it
\* never returns a transaction with another id.
C15_FindByIdReturnsThatRow ==
    (IsFindById /\ ~BadId(call.id))
    => LET n == AccountIdOf(call.id)
           rows == {t \in transactions : t.id = n}
       IN  /\ call.result.kind = "ok"
           /\ call.response.body = call.result.value
           /\ IF rows = {}
              THEN call.result.value = {} /\ call.response.status = 404
              ELSE /\ call.response.status = 200
                   /\ Cardinality(call.result.value) = 1
                   /\ \A d \in call.result.value : \E row \in rows :
                          /\ d.id = StringValueOf(n)
                          /\ d.fromAccountId = StringValueOf(row.from_account_id)
                          /\ d.toAccountId = StringValueOf(row.to_account_id)
                          /\ d.amount = row.amount

\* the row a create inserted is found under its id
C15_Witness ==
    /\ IsFindById /\ call.id = <<50>>
    /\ call.response.status = 200
    /\ \A d \in call.result.value : d.id = <<50>>

\* C16: a findById that directly follows a findById of the same id returns
\* what the first returned and is answered the same way.
C16_FindByIdIdempotent ==
    IsFindById =>
        \A first \in call.previous :
            call.result = first.result /\ call.response = first.response

\* the second of two reads of a row a create inserted
C16_Witness ==
    /\ IsFindById /\ call.previous # {}
    /\ call.id = <<50>> /\ call.result.value # {}

\* C17: once createTransaction has returned a transaction with id X, a
\* findById(X) returns a transaction with id X and the fromAccountId,
\* toAccountId and amount that the create returned.
C17_ReadAfterWrite ==
    IsFindById =>
        \A i \in DOMAIN created :
            created[i].id = call.id =>
                /\ call.result.kind = "ok"
                /\ \E d \in call.result.value :
                       /\ d.id = created[i].id
                       /\ d.fromAccountId = created[i].fromAccountId
                       /\ d.toAccountId = created[i].toAccountId
                       /\ NumEq(d.amount, created[i].amount)

\* C19: findAll returns one entry per Account row, whose id is the row's id
\* as a decimal string and whose balance is the row's balance, and leaves
\* the Account and Transaction tables as they were.
C19_FindAllListsEveryAccount ==
    IsFindAll =>
        /\ Len(call.result) = Cardinality(DOMAIN accounts)
        /\ \A a \in DOMAIN accounts :
              /\ Cardinality({i \in DOMAIN call.result :
                                 /\ Parseable(call.result[i].id)
                                 /\ AccountIdOf(call.result[i].id) = a}) = 1
              /\ \A i \in DOMAIN call.result :
                    AccountIdOf(call.result[i].id) = a
                    => /\ call.result[i].id = NatDigits(a)
                       /\ call.result[i].balance = call.accountsBefore[a]
        /\ accounts = call.accountsBefore
        /\ transactions = call.transactionsBefore

\* the account with nothing on it is listed, after a create
C19_Witness ==
    /\ IsFindAll
    /\ Len(created) = 1
    /\ \E i \in DOMAIN call.result :
          call.result[i].id = <<51>> /\ call.result[i].balance = BigDecimal(0, 2)

(***************************************************************************)
(* Properties of requests in flight together.                              *)
(***************************************************************************)
IsDone(t) == sessions[t].pc = "done"
Succeeded(t) == IsDone(t) /\ sessions[t].result.kind = "ok"

\* an account of the request of t, which passed both existence checks, was
\* no longer there when its INSERT ran
DeletedBeforeSave(t) ==
    /\ IsDone(t) /\ sessions[t].lookedUp
    /\ \/ AccountIdOf(sessions[t].request.fromAccountId) \notin sessions[t].accountsAtSave
       \/ AccountIdOf(sessions[t].request.toAccountId) \notin sessions[t].accountsAtSave

\* C12: a createTransaction whose account is deleted between its existence
\* checks and its insert fails with the foreign-key violation, which leaves
\* the handler as an exception and is answered with neither 400 nor 404 (nor
\* 201); and every Transaction row, committed or not, references two
\* Account rows that exist.
C12_DeletedAccountRejected ==
    /\ \A t \in Threads :
          DeletedBeforeSave(t) =>
              /\ sessions[t].result.kind = "DataIntegrityViolationException"
              /\ sessions[t].result.message \in {"fk_tx_from_account", "fk_tx_to_account"}
              /\ sessions[t].response.exception # ""
              /\ sessions[t].response.status \notin {201, 400, 404}
    /\ \A row \in AllRows(transactions, sessions) :
          /\ row.from_account_id \in DOMAIN accounts
          /\ row.to_account_id \in DOMAIN accounts

\* the source account went between the checks and the insert
C12_Witness ==
    \E t \in Threads :
        /\ DeletedBeforeSave(t)
        /\ sessions[t].result.message = "fk_tx_from_account"
        /\ sessions[t].response.status = 500

\* the two account ids of a request whose ids parse
AccountPair(request) ==
    {AccountIdOf(request.fromAccountId), AccountIdOf(request.toAccountId)}

\* t and u have both finished valid requests on the same two accounts, which
\* are still there
SamePairDone(t, u) ==
    /\ t # u /\ IsDone(t) /\ IsDone(u)
    /\ ~InvalidRequest(sessions[t].request) /\ ~InvalidRequest(sessions[u].request)
    /\ AccountPair(sessions[t].request) = AccountPair(sessions[u].request)
    /\ AccountPair(sessions[t].request) \subseteq DOMAIN accounts

\* the committed row a successful session returned
RowOf(t) ==
    {row \in transactions :
        /\ StringValueOf(row.id) = sessions[t].result.dto.id
        /\ row.from_account_id = AccountIdOf(sessions[t].request.fromAccountId)
        /\ row.to_account_id = AccountIdOf(sessions[t].request.toAccountId)}

\* C18: two valid createTransaction requests on the same two existing
\* accounts both succeed, however their steps interleave, and the table then
\* holds a row for each; and a request that has begun always finishes: no
\* request waits for another forever.
C18_ConcurrentCreatesBothSucceed ==
    /\ [](\A t, u \in Threads :
             SamePairDone(t, u) =>
                 /\ Succeeded(t) /\ Succeeded(u)
                 /\ RowOf(t) # {} /\ RowOf(u) # {}
                 /\ RowOf(t) # RowOf(u))
    /\ \A t \in Threads : (sessions[t].pc # "idle") ~> IsDone(t)

\* two transfers in opposite directions between accounts 1 and 2 that were
\* in flight together and both finished
C18_Witness ==
    \E t, u \in Threads :
        /\ SamePairDone(t, u)
        /\ sessions[t].request.fromAccountId = <<49>>
        /\ sessions[u].request.fromAccountId = <<50>>
        /\ sessions[t].overlapped
        /\ Succeeded(t) /\ Succeeded(u)

\* C20: no two Transaction rows, committed or not, share an id, and no two
\* successful createTransaction calls return the same id, whether they ran
\* one after the other or interleaved.
C20_IdsUnique ==
    /\ \A r1, r2 \in AllRows(transactions, sessions) : r1.id = r2.id => r1 = r2
    /\ \A t, u \in Threads :
          (t # u /\ Succeeded(t) /\ Succeeded(u))
          => sessions[t].result.dto.id # sessions[u].result.dto.id

\* the request that committed while the other was in flight holds the later id
C20_Witness ==
    \E t, u \in Threads :
        /\ Succeeded(t) /\ Succeeded(u)
        /\ sessions[t].overlapped
        /\ sessions[t].result.dto.id = <<51>>
        /\ sessions[u].result.dto.id = <<50>>

(***************************************************************************)
(* Properties of the order and the reach of the checks of                  *)
(* createTransaction.                                                      *)
(***************************************************************************)
\* an id of the request parses to an account that is not there
ReferencesMissing(request, accts) ==
    /\ request # NullRequest
    /\ \E s \in {request.fromAccountId, request.toAccountId} :
          s # Null /\ Parseable(s) /\ AccountIdOf(s) \notin DOMAIN accts

\* C21: createTransaction answers not found only to requests that pass
\* validateRequest and whose ids parse; a request that is invalid and names
\* an account that is not there gets the invalid-argument error (400).
C21_ValidationBeforeLookup ==
    IsCreate =>
        /\ NotFound => ~InvalidRequest(call.request)
        /\ (InvalidRequest(call.request)
            /\ ReferencesMissing(call.request, call.accountsBefore))
           => InvalidArgument /\ call.response.status = 400

\* "7" -> "1" with amount 0: no account 7, and an amount that is not > 0
C21_Witness ==
    /\ HasFields
    /\ call.request.fromAccountId = <<55>> /\ call.request.toAccountId = <<49>>
    /\ call.request.amount = BigDecimal(0, 0)
    /\ InvalidArgument

\* both ids of the request parse, to the same account id
SameAccountId(request) ==
    /\ request # NullRequest
    /\ request.fromAccountId # Null /\ request.toAccountId # Null
    /\ Parseable(request.fromAccountId) /\ Parseable(request.toAccountId)
    /\ AccountIdOf(request.fromAccountId) = AccountIdOf(request.toAccountId)

\* C22: a request whose two ids parse to the same account id, whatever
\* their text, fails with the invalid-argument error and draws no id from
\* the sequence (no INSERT is attempted); ck_accounts_distinct never is the
\* check that rejects a request.
C22_SameAccountNeverInserted ==
    IsCreate =>
        /\ SameAccountId(call.request) => (InvalidArgument /\ txSeq = call.idDrawn)
        /\ call.result.message # "ck_accounts_distinct"

\* C23: a request that passes validateRequest and parsing and names two
\* different existing accounts succeeds, and the row inserted holds the
\* amount of the request: the NUMERIC(12,2) column and ck_amount_positive
\* neither reject nor alter an amount that validateRequest accepts.
C23_ValidAmountStoredUnchanged ==
    (/\ IsCreate
     /\ ~InvalidRequest(call.request)
     /\ ~MissingAccount(call.request, call.accountsBefore)
     /\ ~SameAccountId(call.request))
    => /\ Created
       /\ \E row \in transactions \ call.transactionsBefore :
              NumEq(row.amount, call.request.amount)

(***************************************************************************)
(* Properties of the cart.                                                 *)
(***************************************************************************)
\* the entries of items other than the one of productId, in their order
Others(items, productId) == FilterOut(items, productId)

InCart(items, productId) == \E i \in DOMAIN items : items[i].product = productId

\* the quantity of the first entry of productId
QuantityOf(items, productId) == items[FindIndex(items, productId)].quantity

\* C27: the cart, empty at first, holds at most one entry per product after
\* any calls of addItem, removeItem, setQuantity and clear; addItem of a
\* product in the cart adds the given amount to the quantity of its entry and
\* adds no entry; removeItem and setQuantity leave the entries of the other
\* products as they were.
C27_OneEntryPerProduct ==
    /\ \A i, j \in DOMAIN cart : cart[i].product = cart[j].product => i = j
    /\ (cartCall.op = "addItem" /\ InCart(cartCall.before, cartCall.product))
       => /\ Len(cart) = Len(cartCall.before)
          /\ QuantityOf(cart, cartCall.product)
                = QuantityOf(cartCall.before, cartCall.product) + cartCall.quantity
          /\ Others(cart, cartCall.product) = Others(cartCall.before, cartCall.product)
    /\ cartCall.op \in {"removeItem", "setQuantity"}
       => Others(cart, cartCall.product) = Others(cartCall.before, cartCall.product)

\* a second addItem of the product that is first of two in the cart
C27_Witness ==
    /\ cartCall.op = "addItem" /\ cartCall.quantity = 1
    /\ Len(cartCall.before) = 2
    /\ cartCall.before[1].product = cartCall.product
    /\ cart[1].quantity = 2

\* C28: after any calls of addItem, removeItem, setQuantity and clear every
\* entry of the cart has a quantity >= 1, so totalCents is not negative; and
\* setQuantity with a quantity <= 0 removes the entry.
C28_QuantitiesPositive ==
    /\ \A i \in DOMAIN cart : cart[i].quantity >= 1
    /\ totalCents(cart) >= 0
    /\ (cartCall.op = "setQuantity" /\ cartCall.quantity <= 0)
       => ~InCart(cart, cartCall.product)

(***************************************************************************)
(* Properties of the checkout page.                                        *)
(***************************************************************************)
\* the response of a payment that succeeded
PaymentSucceeded(response) ==
    response.kind = "http" /\ response.json /\ ResponseOk(response)
    /\ response.success = "true"

\* a step in which a request in flight ends
Settles ==
    checkout'.requests # checkout.requests /\ checkout'.requests \subseteq checkout.requests

\* a step in which a request is sent
Sends == ~(checkout'.requests \subseteq checkout.requests)

\* the end of a request clears the cart if its payment succeeded and keeps
\* the items if not, and nothing else empties the cart
ClearedIffSucceeded ==
    /\ Settles => cart' = IF PaymentSucceeded(checkout'.last.response) THEN <<>> ELSE cart
    /\ (cart # <<>> /\ cart' = <<>>)
       => Settles /\ PaymentSucceeded(checkout'.last.response)

\* a confirm without an account id sends nothing and keeps the cart
NoAccountNoRequest ==
    (checkout' # checkout /\ checkout'.last.op = "confirm" /\ checkout.fromAccountId = "")
    => ~Sends /\ cart' = cart

\* a request is sent only when none is in flight
NoSecondRequest == Sends => checkout.requests = {}

\* C29: on the checkout page the cart is cleared if and only if the payment
\* succeeded (createTransaction resolved with an HTTP-ok response whose
\* success flag is true); a failed request, a 400 or 404, success=false or a
\* confirm without fromAccountId (no request) leaves the items unchanged;
\* and a confirm while a request is pending starts no second request.
C29_ClearedIffPaidOneRequest ==
    [][ClearedIffSucceeded /\ NoAccountNoRequest /\ NoSecondRequest]_vars

(***************************************************************************)
(* Properties of the tRPC server.                                          *)
(***************************************************************************)
\* the tokens a request carries: its Authorization header, with or without
\* the word Bearer, and its sb-access-token cookie
CarriedTokens(request) ==
    {s \in {request.authorization, request.cookie,
            Str(Replace(request.authorization.parts, "Bearer "))} : Truthy(s)}

\* getUser gave a user and no error for the token
Verified(token, outcome) ==
    LET verdict == SupabaseGetUser(token, outcome)
    IN  ~verdict.thrown /\ verdict.error = "none" /\ verdict.user # "null"

\* C25: the handler of a protectedProcedure runs only when the request
\* carries a token (Authorization header or sb-access-token cookie) for which
\* getUser returns a user and no error; in every other case the call fails
\* with UNAUTHORIZED and the handler does not run.
C25_HandlerOnlyWhenAuthenticated ==
    procCall.op = "call"
    => LET authentic == \E token \in CarriedTokens(procCall.request) :
                            Verified(token, procCall.outcome)
       IN  /\ procCall.result.handlerRan => authentic
           /\ ~authentic => /\ ~procCall.result.handlerRan
                            /\ procCall.result.code = "UNAUTHORIZED"

\* a call with a token that has no session, and one that runs the handler
C25_Witness ==
    /\ procCall.op = "call"
    /\ procCall.request.authorization = Str(<<"Bearer ", "bad">>)
    /\ procCall.request.cookie = Str(<<"t1">>)
    /\ procCall.outcome = "answer"
    /\ ~procCall.result.handlerRan

\* no value: undefined, NULL or the empty text
Blank(x) == x \in {"undefined", "null", ""}

SameText(x, y) == x = y \/ (Blank(x) /\ Blank(y))

\* the row holds the values of the input
RowHasInput(row, input) ==
    /\ row.date = input.date
    /\ row.morning_products = input.morningProducts
    /\ row.evening_products = input.eveningProducts
    /\ SameText(row.skin_condition_rating, input.skinConditionRating)
    /\ SameText(row.skin_conditions, input.skinConditions)
    /\ SameText(row.notes, input.notes)

\* the returned object holds the values of the input
OutputHasInput(value, input) ==
    /\ value.date = input.date
    /\ value.morningProducts = input.morningProducts
    /\ value.eveningProducts = input.eveningProducts
    /\ SameText(value.skinConditionRating, input.skinConditionRating)
    /\ SameText(value.skinConditions, input.skinConditions)
    /\ SameText(value.notes, input.notes)

\* C24: skincareRoutine.create is an upsert on (user, date): whatever calls
\* of create ran, one after another or together, the table has at most one row
\* per (user_id, date); a create for a date that has a row updates that row
\* to the products, rating, conditions and notes of the input instead of
\* failing, and the call returns the values of its input.
C24_CreateIsUpsert ==
    /\ \A r1, r2 \in routines :
           (r1.user_id = r2.user_id /\ r1.date = r2.date) => r1 = r2
    /\ \A t \in Callers :
           (rpc[t].pc = "done" /\ rpc[t].path \in {"insert", "update"})
           => /\ rpc[t].result.ok
              /\ RowHasInput(rpc[t].row, rpc[t].input)
              /\ rpc[t].row.user_id = rpc[t].user
              /\ OutputHasInput(rpc[t].result.value, rpc[t].input)

(***************************************************************************)
(* Properties of useAuth.                                                  *)
(***************************************************************************)
\* C26: useAuth with redirectOnUnauthenticated redirects to the login path
\* only once the session is known to be null: not while loading is true, not
\* before the first session check is done, and not when the retrieval of the
\* session has timed out or is pending while Supabase holds a valid session.
C26_RedirectOnlyWhenSessionNull ==
    auth.pc = "redirected"
    => /\ auth.redirectOnUnauthenticated
       /\ ~auth.loading /\ auth.firstSessionCheckDone
       /\ ~(auth.stored = "valid" /\ auth.retrieval \in {"pending", "timedout"})

====
